---- MODULE Spec2Model ----
(***************************************************************************)
(* Model of v3io/controlplane/resources.py: the envelope getter, the      *)
(* pydantic decode (from_orm) and encode (_fields_to_attributes), the     *)
(* generic update/delete, the User group-membership workflow, Job's       *)
(* overrides and Configurations.reload.  The crud handlers and the        *)
(* transport (cruds.py, client.py) are modelled from the specification.   *)
(***************************************************************************)
EXTENDS Integers, Sequences, FiniteSets, TLC

(***************************************************************************)
(* Bounds                                                                  *)
(***************************************************************************)
\* largest number of keys present in the attributes of a generated envelope
MaxAttrs == 2
\* total number of calls the tasks of the workflow specification may start
MaxCalls == 3
\* number of calls made on Job instances in the reload specification
MaxJobCalls == 2

(***************************************************************************)
(* Values.  A wire value is a tagged string: "s:..." is a JSON string,     *)
(* "i:..." a JSON integer, "null" JSON null.                               *)
(***************************************************************************)
Absent == "absent"
Null == "null"
Missing == "_missing"
Invalid == "invalid"

AttrValues == {Null, "s:a", "i:1"}
IdValues == {"s:u1", "s:1"}
TypeNames == {"user", "user_group", "access_key", "job"}
Kinds == {"User", "UserGroup", "AccessKey", "Job"}
Groups == {"g1", "g2"}
AttrKeys == {"id", "type", "relationships", "username", "password",
             "description", "kind", "unknown"}
BaseFields == {"type", "id", "relationships"}

\* pydantic str_validator: a str is kept, an int becomes its decimal string
StrOf(v) == IF v = "i:1" THEN "s:1" ELSE v

\* pydantic int_validator: an int is kept, a numeric string is parsed
IntOf(v) == IF v \in {"i:1", "s:1"} THEN "i:1" ELSE Invalid

\* Optional[Union[int, str]]: the members are tried in order, int first
UnionIntStr(v) == IF IntOf(v) # Invalid THEN IntOf(v) ELSE StrOf(v)

(***************************************************************************)
(* Relationship bags: a function from relationship names to linkage        *)
(* objects [data |-> <<[id, type], ...>>].                                 *)
(***************************************************************************)
EmptyBag == [r \in {} |-> [data |-> <<>>]]
Linkage(g) == [id |-> g, type |-> "user_group"]
GroupsBag(list) == [r \in {"user_groups"} |-> [data |-> list]]
SetEntry(bag, name, list) ==
    [r \in DOMAIN bag \cup {name} |-> IF r = name THEN [data |-> list] ELSE bag[r]]

RECURSIVE SelectLinks(_, _)
SelectLinks(list, keep) ==
    IF list = <<>> THEN <<>>
    ELSE IF Head(list).id \in keep
         THEN <<Head(list)>> \o SelectLinks(Tail(list), keep)
         ELSE SelectLinks(Tail(list), keep)

LinkIds(list) == {list[i].id : i \in 1..Len(list)}
CountOf(list, g) == Cardinality({i \in 1..Len(list) : list[i].id = g})

(***************************************************************************)
(* The resource classes                                                    *)
(***************************************************************************)
TypeDefault(cls) ==
    CASE cls = "User" -> "user"
      [] cls = "UserGroup" -> "user_group"
      [] cls = "AccessKey" -> "access_key"
      [] cls = "Job" -> "job"

\* _as_resource_name: the default of the class's type field
AsResourceName(cls) == TypeDefault(cls)

UserFields == {"username", "first_name", "last_name", "email", "uid",
               "created_at", "data_access_mode", "authentication_scheme",
               "send_password_on_creation", "assigned_policies",
               "operational_status", "admin_status", "password"}
UserGroupFields == {"name", "description", "data_access_mode", "gid", "kind",
                    "assigned_policies", "system_provided"}
AccessKeyFields == {"tenant_id", "ttl", "created_at", "updated_at", "group_ids",
                    "uid", "gids", "expires_at", "interface_kind", "label",
                    "kind", "planes"}
JobFields == {"kind", "params", "max_total_execution_time",
              "max_worker_execution_time", "delay", "state", "result",
              "created_at", "on_success", "on_failure", "updated_at",
              "handler", "ctx_id"}

Fields(cls) ==
    CASE cls = "User" -> UserFields
      [] cls = "UserGroup" -> UserGroupFields
      [] cls = "AccessKey" -> AccessKeyFields
      [] cls = "Job" -> JobFields

\* the declared fields whose values the model carries
ModelledFields(cls) == Fields(cls) \cap AttrKeys

\* fields that accept None: declared Optional or with a None default
Nullable(cls) ==
    CASE cls = "User" -> {"password"}
      [] cls = "UserGroup" -> {"description"}
      [] cls = "AccessKey" -> {}
      [] cls = "Job" -> {"max_worker_execution_time", "on_success", "on_failure"}

\* fields declared with Field(..., exclude=True)
FieldExclude(cls) == IF cls = "User" THEN {"password"} ELSE {}

FieldDefault(cls, f) ==
    CASE f \in {"password", "description"} -> Null
      [] f = "kind" /\ cls = "UserGroup" -> "s:local"
      [] f = "kind" /\ cls = "AccessKey" -> "s:accessKey"
      [] OTHER -> "s:"

(***************************************************************************)
(* Envelope codec                                                          *)
(***************************************************************************)
Envelope(type, id, hasRel, rel, attrs) ==
    [data |-> [type |-> type, id |-> id, has_relationships |-> hasRel,
               relationships |-> rel, attributes |-> attrs]]

\* a getter without the branch for the identity fields
GetFromAttributes(obj, key, default) ==
    IF key = "relationships"
    THEN (IF obj.data.has_relationships THEN obj.data.relationships ELSE EmptyBag)
    ELSE IF key \in AttrKeys /\ obj.data.attributes[key] # Absent
    THEN obj.data.attributes[key]
    ELSE default

\* _BaseGetter.get
Get(obj, key, default) ==
    IF key \in {"id", "type"}
    THEN (IF key = "id" THEN obj.data.id ELSE obj.data.type)
    ELSE IF key = "relationships"
    THEN (IF obj.data.has_relationships THEN obj.data.relationships ELSE EmptyBag)
    ELSE IF key \in AttrKeys /\ obj.data.attributes[key] # Absent
    THEN obj.data.attributes[key]
    ELSE default

ValidationError ==
    [ok |-> FALSE, type |-> "", id |-> "", relationships |-> EmptyBag,
     values |-> [f \in {} |-> Null], fields_set |-> {}]

\* from_orm: every field is looked up through the getter; a field whose
\* lookup is not the missing sentinel is validated and recorded as set,
\* the others take their defaults.  Keys that are not fields are dropped.
FromOrm(cls, obj) ==
    LET raw(f) == Get(obj, f, Missing)
        present == {f \in ModelledFields(cls) : raw(f) # Missing}
        bad == {f \in present : raw(f) = Null /\ f \notin Nullable(cls)}
    IN IF bad # {} THEN ValidationError
       ELSE [ok |-> TRUE,
             type |-> StrOf(Get(obj, "type", Missing)),
             id |-> UnionIntStr(Get(obj, "id", Missing)),
             relationships |-> Get(obj, "relationships", Missing),
             values |-> [f \in ModelledFields(cls) |->
                           IF f \in present
                           THEN (IF raw(f) = Null THEN Null ELSE StrOf(raw(f)))
                           ELSE FieldDefault(cls, f)],
             fields_set |-> BaseFields \cup present]

\* the value of a field of an instance is None
IsNone(m, f) == f \notin BaseFields /\ m.values[f] = Null

\* an encoding without exclude_unset
FieldsToAttributesOfAll(cls, m) ==
    LET keys == {f \in DOMAIN m.values : /\ f \notin FieldExclude(cls)
                                         /\ ~IsNone(m, f)}
    IN [f \in keys |-> m.values[f]]

\* _fields_to_attributes
FieldsToAttributes(cls, m) ==
    LET names == BaseFields \cup DOMAIN m.values
        keys == {f \in names : /\ f \in m.fields_set
                               /\ f \notin {"type", "relationships", "id"}
                               /\ f \notin FieldExclude(cls)
                               /\ ~IsNone(m, f)}
    IN [f \in keys |-> m.values[f]]

(***************************************************************************)
(* State                                                                   *)
(***************************************************************************)
VARIABLES
    \* codec specification: a resource class, an envelope, the decoded
    \* instance and the encoded write payload
    kind, env, inst, payload, cpc,
    \* workflow specification: the user resource on the server, each task's
    \* caller-held instance (self), the working copy of add/remove (user),
    \* the task's position, its current call and the call's bookkeeping
    srv, self, user, pc, call, pre, prev, res, reqs, ncalls,
    fetchIdx, writeLog, initRel,
    \* reload specification: the server's job, the reload call and the
    \* calls made on a Job instance
    jobState, rpc, rarg, rtimeout, rres, elapsed, jobInst, jcall, jres, jreqs, njcalls

codecVars == <<kind, env, inst, payload, cpc>>
flowVars == <<srv, self, user, pc, call, pre, prev, res, reqs, ncalls,
              fetchIdx, writeLog, initRel>>
reloadVars == <<jobState, rpc, rarg, rtimeout, rres, elapsed, jobInst, jcall, jres, jreqs,
               njcalls>>
vars == <<codecVars, flowVars, reloadVars>>

NoAttrs == [k \in AttrKeys |-> Absent]
NoPayload == [f \in {} |-> Null]

\* the envelopes the codec specification decodes
AttrMaps ==
    {a \in [AttrKeys -> AttrValues \cup {Absent}] :
        Cardinality({k \in AttrKeys : a[k] # Absent}) <= MaxAttrs}
RelInputs == {<<FALSE, EmptyBag>>, <<TRUE, EmptyBag>>,
              <<TRUE, GroupsBag(<<Linkage("g1")>>)>>}
Envelopes ==
    {Envelope(t, i, r[1], r[2], a) :
        t \in TypeNames, i \in IdValues, r \in RelInputs, a \in AttrMaps}

CodecIdle ==
    /\ kind = "User"
    /\ env = Envelope("user", "s:u1", FALSE, EmptyBag, NoAttrs)
    /\ inst = ValidationError
    /\ payload = NoPayload
    /\ cpc = "off"

(***************************************************************************)
(* Codec specification: decode an envelope, encode the instance            *)
(***************************************************************************)
CodecInit ==
    /\ kind \in Kinds
    /\ env \in Envelopes
    /\ inst = ValidationError
    /\ payload = NoPayload
    /\ cpc = "envelope"

\* cls.from_orm(resource), as get, list, create and self call it
Decode ==
    /\ cpc = "envelope"
    /\ inst' = FromOrm(kind, env)
    /\ cpc' = IF inst'.ok THEN "decoded" ELSE "rejected"
    /\ UNCHANGED <<kind, env, payload>>
    /\ UNCHANGED <<flowVars, reloadVars>>

\* self._fields_to_attributes(), as update calls it
Encode ==
    /\ cpc = "decoded"
    /\ payload' = FieldsToAttributes(kind, inst)
    /\ cpc' = "encoded"
    /\ UNCHANGED <<kind, env, inst>>
    /\ UNCHANGED <<flowVars, reloadVars>>

CodecNext == Decode \/ Encode

(***************************************************************************)
(* The crud handler of the user resource and the server behind it          *)
(***************************************************************************)
Tasks == {"t1", "t2"}
UserId == "s:u1"
NewNames == {"s:b"}

\* the envelope the handler's get returns for the user
CrudGet(s, resource_id, include) ==
    Envelope("user", UserId, TRUE, s.relationships, s.attributes)

\* the handler's update: a partial update, only what is supplied changes
CrudUpdate(s, attributes, relationships) ==
    [s EXCEPT !.attributes = [k \in AttrKeys |->
                                 IF k \in DOMAIN attributes THEN attributes[k] ELSE @[k]],
              !.relationships = IF relationships.given THEN relationships.bag ELSE @]

\* the handler's delete
CrudDelete(s) == [s EXCEPT !.exists = FALSE]

NoRelationships == [given |-> FALSE, bag |-> EmptyBag]
Relationships(bag) == [given |-> TRUE, bag |-> bag]

Request(crud, op, ok) == [crud |-> crud, op |-> op, ok |-> ok]

(***************************************************************************)
(* _BaseResource.get and the local steps of the membership workflow        *)
(***************************************************************************)
\* cls.get: the handler is the one of the class's resource name
ResourceGet(cls, s, resource_id, include) ==
    FromOrm(cls, CrudGet(s, resource_id, include))

\* self.__dict__.update(updated_resource): every field value of the fetched
\* instance replaces the target's; the target's set of set fields stays
Overlay(target, updated) ==
    [target EXCEPT !.type = updated.type,
                   !.id = updated.id,
                   !.relationships = updated.relationships,
                   !.values = [f \in DOMAIN target.values \cup DOMAIN updated.values |->
                                  IF f \in DOMAIN updated.values
                                  THEN updated.values[f] ELSE target.values[f]]]

\* attribute assignment on an instance: the value is stored, the field is set
SetField(m, f, v) ==
    [m EXCEPT !.values = [@ EXCEPT ![f] = v], !.fields_set = @ \cup {f}]

\* an add_to_group that appends without looking for the group
AddToGroupEditUnchecked(relationships, group_id) ==
    LET r1 == IF "user_groups" \notin DOMAIN relationships
              THEN SetEntry(relationships, "user_groups", <<>>)
              ELSE relationships
    IN [relationships |-> SetEntry(r1, "user_groups",
                                    Append(r1["user_groups"].data, Linkage(group_id))),
        update |-> TRUE]

\* add_to_group between the fetch and the update
AddToGroupEdit(relationships, group_id) ==
    LET r1 == IF "user_groups" \notin DOMAIN relationships
              THEN SetEntry(relationships, "user_groups", <<>>)
              ELSE relationships
        data == r1["user_groups"].data
    IN IF group_id \notin LinkIds(data)
       THEN [relationships |-> SetEntry(r1, "user_groups", Append(data, Linkage(group_id))),
             update |-> TRUE]
       ELSE [relationships |-> r1, update |-> FALSE]

\* a remove_from_group whose filter keeps the group instead of dropping it
RemoveFromGroupEditInverted(relationships, group_id) ==
    IF "user_groups" \in DOMAIN relationships
    THEN [relationships |-> SetEntry(relationships, "user_groups",
                                      SelectLinks(relationships["user_groups"].data,
                                                  {group_id})),
          update |-> TRUE]
    ELSE [relationships |-> relationships, update |-> FALSE]

\* remove_from_group between the fetch and the update
RemoveFromGroupEdit(relationships, group_id) ==
    IF "user_groups" \in DOMAIN relationships
    THEN LET data == relationships["user_groups"].data
         IN [relationships |-> SetEntry(relationships, "user_groups",
                                         SelectLinks(data, LinkIds(data) \ {group_id})),
             update |-> TRUE]
    ELSE [relationships |-> relationships, update |-> FALSE]

(***************************************************************************)
(* Workflow specification                                                  *)
(***************************************************************************)
NoCall == [op |-> "none", group_id |-> "", ignore_missing |-> FALSE, set |-> Absent]
NoPrev == [op |-> "none", group_id |-> "", res |-> "none"]
Server0 == [exists |-> TRUE,
            attributes |-> [NoAttrs EXCEPT !["username"] = "s:a"],
            relationships |-> EmptyBag]
NoPre == [self |-> ValidationError, srv |-> Server0]

InitBags ==
    {EmptyBag} \cup
    {GroupsBag(l) : l \in {<<>>, <<Linkage("g1")>>}}

FlowIdle ==
    /\ srv = Server0
    /\ self = [t \in Tasks |-> ValidationError]
    /\ user = [t \in Tasks |-> ValidationError]
    /\ pc = [t \in Tasks |-> "off"]
    /\ call = [t \in Tasks |-> NoCall]
    /\ pre = [t \in Tasks |-> NoPre]
    /\ prev = [t \in Tasks |-> NoPrev]
    /\ res = [t \in Tasks |-> "none"]
    /\ reqs = [t \in Tasks |-> <<>>]
    /\ ncalls = 0
    /\ fetchIdx = [t \in Tasks |-> 0]
    /\ writeLog = <<>>
    /\ initRel = EmptyBag

\* every task holds an instance of the user it fetched earlier
FlowInit ==
    /\ \E b \in InitBags : srv = [Server0 EXCEPT !.relationships = b]
    /\ self = [t \in Tasks |-> ResourceGet("User", srv, UserId, {})]
    /\ user = [t \in Tasks |-> ValidationError]
    /\ pc = [t \in Tasks |-> "idle"]
    /\ call = [t \in Tasks |-> NoCall]
    /\ pre = [t \in Tasks |-> NoPre]
    /\ prev = [t \in Tasks |-> NoPrev]
    /\ res = [t \in Tasks |-> "none"]
    /\ reqs = [t \in Tasks |-> <<>>]
    /\ ncalls = 0
    /\ fetchIdx = [t \in Tasks |-> 0]
    /\ writeLog = <<>>
    /\ initRel = srv.relationships

\* a task starts a call on its instance, once its previous call has ended;
\* the working copy of the previous call is gone by then
Begin(t, c, first) ==
    /\ pc[t] \in {"idle", "done"}
    /\ ncalls < MaxCalls
    /\ ncalls' = ncalls + 1
    /\ prev' = [prev EXCEPT ![t] = IF pc[t] = "done"
                                   THEN [op |-> call[t].op, group_id |-> call[t].group_id,
                                         res |-> res[t]]
                                   ELSE @]
    /\ call' = [call EXCEPT ![t] = c]
    /\ pre' = [pre EXCEPT ![t] = [self |-> self'[t], srv |-> srv]]
    /\ res' = [res EXCEPT ![t] = "none"]
    /\ reqs' = [reqs EXCEPT ![t] = <<>>]
    /\ user' = [user EXCEPT ![t] = ValidationError]
    /\ fetchIdx' = [fetchIdx EXCEPT ![t] = 0]
    /\ pc' = [pc EXCEPT ![t] = first]
    /\ UNCHANGED <<srv, writeLog, initRel>>
    /\ UNCHANGED <<codecVars, reloadVars>>

CallAddToGroup(t, g) ==
    /\ self' = self
    /\ Begin(t, [NoCall EXCEPT !.op = "add", !.group_id = g], "fetch")

CallRemoveFromGroup(t, g) ==
    /\ self' = self
    /\ Begin(t, [NoCall EXCEPT !.op = "remove", !.group_id = g], "fetch")

\* the caller may assign a field of its instance before it calls update
CallUpdate(t, v) ==
    /\ self' = [self EXCEPT ![t] = IF v = Absent THEN @ ELSE SetField(@, "username", v)]
    /\ Begin(t, [NoCall EXCEPT !.op = "update", !.set = v], "write")

CallDelete(t, ignore_missing) ==
    /\ self' = self
    /\ Begin(t, [NoCall EXCEPT !.op = "delete", !.ignore_missing = ignore_missing], "delete")

\* the call ends: with an error, or normally
Finish(t, result, request) ==
    /\ pc' = [pc EXCEPT ![t] = "done"]
    /\ res' = [res EXCEPT ![t] = result]
    /\ reqs' = [reqs EXCEPT ![t] = Append(@, request)]

\* the working copy after the fetch and the local edit of add or remove
Edited(t) ==
    LET fetched == ResourceGet("User", srv, self[t].id, {"user_groups"})
        edit == IF call[t].op = "add"
                THEN AddToGroupEdit(fetched.relationships, call[t].group_id)
                ELSE RemoveFromGroupEdit(fetched.relationships, call[t].group_id)
    IN [user |-> [fetched EXCEPT !.relationships = edit.relationships],
        update |-> edit.update]

\* add_to_group and remove_from_group up to their await of update
GroupFetch(t) ==
    /\ pc[t] = "fetch"
    /\ IF ~srv.exists
       THEN /\ Finish(t, "NotFoundError", Request(AsResourceName("User"), "get", FALSE))
            /\ UNCHANGED <<user, fetchIdx>>
       ELSE /\ user' = [user EXCEPT ![t] = Edited(t).user]
            /\ fetchIdx' = [fetchIdx EXCEPT ![t] = Len(writeLog)]
            /\ IF Edited(t).update
               THEN /\ pc' = [pc EXCEPT ![t] = "write"]
                    /\ reqs' = [reqs EXCEPT ![t] =
                                   Append(@, Request(AsResourceName("User"), "get", TRUE))]
                    /\ res' = res
               ELSE Finish(t, "ok", Request(AsResourceName("User"), "get", TRUE))
    /\ UNCHANGED <<srv, self, call, pre, prev, ncalls, writeLog, initRel>>
    /\ UNCHANGED <<codecVars, reloadVars>>

\* add_to_group and remove_from_group calling update on self
UpdatesSelfAlways(t) == TRUE

\* update runs on the caller's instance when the caller calls it, and on the
\* fetched copy when add_to_group or remove_from_group call it
UpdatesSelf(t) == call[t].op = "update"

UpdateTarget(t) == IF UpdatesSelf(t) THEN self[t] ELSE user[t]

\* an update that always sends the relationships of its instance
UpdateRelationshipsOfInstance(t) == Relationships(UpdateTarget(t).relationships)

\* the relationships argument of update: None by default, the edited bag
\* when add_to_group or remove_from_group call it
UpdateRelationships(t) ==
    IF call[t].op = "update" THEN NoRelationships
    ELSE Relationships(user[t].relationships)

\* an update that goes on to the fetch when the write has failed
UpdateWriteUnchecked(t) ==
    /\ pc[t] = "write"
    /\ srv' = IF srv.exists
              THEN CrudUpdate(srv, FieldsToAttributes("User", UpdateTarget(t)),
                              UpdateRelationships(t))
              ELSE srv
    /\ writeLog' = IF srv.exists /\ UpdateRelationships(t).given
                   THEN Append(writeLog,
                               [task |-> t, op |-> call[t].op,
                                group_id |-> call[t].group_id,
                                fetchIdx |-> fetchIdx[t],
                                sent |-> UpdateRelationships(t).bag])
                   ELSE writeLog
    /\ pc' = [pc EXCEPT ![t] = "refetch"]
    /\ reqs' = [reqs EXCEPT ![t] =
                   Append(@, Request(UpdateTarget(t).type, "update", srv.exists))]
    /\ res' = res
    /\ UNCHANGED <<self, user, call, pre, prev, ncalls, fetchIdx, initRel>>
    /\ UNCHANGED <<codecVars, reloadVars>>

\* update, first await: the write through the handler of self.type
UpdateWrite(t) ==
    /\ pc[t] = "write"
    /\ IF ~srv.exists
       THEN /\ Finish(t, "NotFoundError", Request(UpdateTarget(t).type, "update", FALSE))
            /\ UNCHANGED <<srv, writeLog>>
       ELSE /\ srv' = CrudUpdate(srv, FieldsToAttributes("User", UpdateTarget(t)),
                                 UpdateRelationships(t))
            /\ writeLog' = IF UpdateRelationships(t).given
                           THEN Append(writeLog,
                                       [task |-> t, op |-> call[t].op,
                                        group_id |-> call[t].group_id,
                                        fetchIdx |-> fetchIdx[t],
                                        sent |-> UpdateRelationships(t).bag])
                           ELSE writeLog
            /\ pc' = [pc EXCEPT ![t] = "refetch"]
            /\ reqs' = [reqs EXCEPT ![t] =
                           Append(@, Request(UpdateTarget(t).type, "update", TRUE))]
            /\ res' = res
    /\ UNCHANGED <<self, user, call, pre, prev, ncalls, fetchIdx, initRel>>
    /\ UNCHANGED <<codecVars, reloadVars>>

\* update, second await: the fetch by id and the overlay onto the instance
UpdateRefetch(t) ==
    /\ pc[t] = "refetch"
    /\ IF ~srv.exists
       THEN /\ Finish(t, "NotFoundError", Request(AsResourceName("User"), "get", FALSE))
            /\ UNCHANGED <<self, user>>
       ELSE /\ LET updated == ResourceGet("User", srv, UpdateTarget(t).id, {})
               IN IF UpdatesSelf(t)
                  THEN /\ self' = [self EXCEPT ![t] = Overlay(@, updated)]
                       /\ user' = user
                  ELSE /\ user' = [user EXCEPT ![t] = Overlay(@, updated)]
                       /\ self' = self
            /\ Finish(t, "ok", Request(AsResourceName("User"), "get", TRUE))
    /\ UNCHANGED <<srv, call, pre, prev, ncalls, fetchIdx, writeLog, initRel>>
    /\ UNCHANGED <<codecVars, reloadVars>>

\* delete: one request through the handler of self.type
Delete(t) ==
    /\ pc[t] = "delete"
    /\ IF srv.exists
       THEN /\ srv' = CrudDelete(srv)
            /\ Finish(t, "ok", Request(self[t].type, "delete", TRUE))
       ELSE /\ srv' = srv
            /\ Finish(t, IF call[t].ignore_missing THEN "ok" ELSE "NotFoundError",
                      Request(self[t].type, "delete", FALSE))
    /\ UNCHANGED <<self, user, call, pre, prev, ncalls, fetchIdx, writeLog, initRel>>
    /\ UNCHANGED <<codecVars, reloadVars>>

TaskNext(t) ==
    \/ \E g \in Groups : CallAddToGroup(t, g)
    \/ \E g \in Groups : CallRemoveFromGroup(t, g)
    \/ \E v \in NewNames \cup {Absent} : CallUpdate(t, v)
    \/ \E i \in BOOLEAN : CallDelete(t, i)
    \/ GroupFetch(t)
    \/ UpdateWrite(t)
    \/ UpdateRefetch(t)
    \/ Delete(t)

(***************************************************************************)
(* Reload specification: Configurations.reload over the transport's        *)
(* request_job, and the calls a client makes on a Job instance             *)
(***************************************************************************)
\* the timeout reload hands to request_job, in seconds
ReloadTimeout == 60 * 15

NoTimeout == 0
CallerTimeouts == {1, 2}
JobRunning == {"created", "running"}
JobTerminal == {"completed", "failed"}
JobKwargs == SUBSET {"relationships", "ignore_missing"}
NoJob == [state |-> "none"]
NoJobCall == [op |-> "none", kwargs |-> {}]

ReloadIdle ==
    /\ jobState = "none"
    /\ rpc = "off"
    /\ rarg = NoTimeout
    /\ rtimeout = 0
    /\ rres = "none"
    /\ elapsed = 0
    /\ jobInst = NoJob
    /\ jcall = NoJobCall
    /\ jres = "none"
    /\ jreqs = <<>>
    /\ njcalls = 0

ReloadInit ==
    /\ jobState = "none"
    /\ rpc = "idle"
    /\ rarg = NoTimeout
    /\ rtimeout = 0
    /\ rres = "none"
    /\ elapsed = 0
    /\ jobInst = NoJob
    /\ jcall = NoJobCall
    /\ jres = "none"
    /\ jreqs = <<>>
    /\ njcalls = 0

\* a reload that took the caller's timeout and handed it to request_job
ReloadWithTimeout(timeout) ==
    /\ rpc = "idle"
    /\ rarg' = timeout
    /\ rpc' = "polling"
    /\ rres' = "none"
    /\ rtimeout' = IF timeout # NoTimeout THEN timeout ELSE ReloadTimeout
    /\ jobState' = "created"
    /\ elapsed' = 0
    /\ UNCHANGED <<jobInst, jcall, jres, jreqs, njcalls>>
    /\ UNCHANGED <<codecVars, flowVars>>

\* reload(http_client, config_type): the signature has no timeout parameter,
\* so a call that passes one is rejected when it is bound; otherwise the
\* job request is sent with the fixed timeout
Reload(timeout) ==
    /\ rpc = "idle"
    /\ rarg' = timeout
    /\ IF timeout # NoTimeout
       THEN /\ rpc' = "done"
            /\ rres' = "TypeError"
            /\ UNCHANGED <<jobState, rtimeout>>
       ELSE /\ rpc' = "polling"
            /\ rres' = "none"
            /\ rtimeout' = ReloadTimeout
            /\ jobState' = "created"
    /\ elapsed' = 0
    /\ UNCHANGED <<jobInst, jcall, jres, jreqs, njcalls>>
    /\ UNCHANGED <<codecVars, flowVars>>

\* the server runs the job
JobStart ==
    /\ jobState = "created"
    /\ jobState' = "running"
    /\ UNCHANGED <<rpc, rarg, rtimeout, rres, elapsed, jobInst, jcall, jres, jreqs, njcalls>>
    /\ UNCHANGED <<codecVars, flowVars>>

JobEnd(state) ==
    /\ jobState = "running"
    /\ jobState' = state
    /\ UNCHANGED <<rpc, rarg, rtimeout, rres, elapsed, jobInst, jcall, jres, jreqs, njcalls>>
    /\ UNCHANGED <<codecVars, flowVars>>

\* request_job waits: a second passes with the job not terminal
PollWait ==
    /\ rpc = "polling"
    /\ jobState \in JobRunning
    /\ elapsed < rtimeout
    /\ elapsed' = elapsed + 1
    /\ UNCHANGED <<jobState, rpc, rarg, rtimeout, rres, jobInst, jcall, jres, jreqs, njcalls>>
    /\ UNCHANGED <<codecVars, flowVars>>

\* request_job sees the job terminal: it returns, or raises the job's result
PollTerminal ==
    /\ rpc = "polling"
    /\ jobState \in JobTerminal
    /\ rpc' = "done"
    /\ rres' = IF jobState = "completed" THEN "ok" ELSE "JobFailed"
    /\ UNCHANGED <<jobState, rarg, rtimeout, elapsed, jobInst, jcall, jres, jreqs, njcalls>>
    /\ UNCHANGED <<codecVars, flowVars>>

\* request_job gives up: the timeout has elapsed with the job not terminal
PollTimeout ==
    /\ rpc = "polling"
    /\ jobState \in JobRunning
    /\ elapsed >= rtimeout
    /\ rpc' = "done"
    /\ rres' = "TimeoutError"
    /\ UNCHANGED <<jobState, rarg, rtimeout, elapsed, jobInst, jcall, jres, jreqs, njcalls>>
    /\ UNCHANGED <<codecVars, flowVars>>

\* Job.get: the client reads the job as it is now
JobGet ==
    /\ jobState # "none"
    /\ jobInst' = [state |-> jobState]
    /\ jobInst' # jobInst
    /\ UNCHANGED <<jobState, rpc, rarg, rtimeout, rres, elapsed, jcall, jres, jreqs, njcalls>>
    /\ UNCHANGED <<codecVars, flowVars>>

\* the inherited update would send the write to the job handler
JobUpdateInherited(kwargs) ==
    /\ jobInst # NoJob
    /\ njcalls < MaxJobCalls
    /\ njcalls' = njcalls + 1
    /\ jcall' = [op |-> "update", kwargs |-> kwargs]
    /\ jres' = "ok"
    /\ jreqs' = <<Request("job", "update", TRUE)>>
    /\ UNCHANGED <<jobState, rpc, rarg, rtimeout, rres, elapsed, jobInst>>
    /\ UNCHANGED <<codecVars, flowVars>>

\* Job.update(http_client, **kwargs): raises, whatever the keywords
JobUpdate(kwargs) ==
    /\ jobInst # NoJob
    /\ njcalls < MaxJobCalls
    /\ njcalls' = njcalls + 1
    /\ jcall' = [op |-> "update", kwargs |-> kwargs]
    /\ jres' = "RuntimeError"
    /\ jreqs' = <<>>
    /\ UNCHANGED <<jobState, rpc, rarg, rtimeout, rres, elapsed, jobInst>>
    /\ UNCHANGED <<codecVars, flowVars>>

\* Job.delete(http_client, **kwargs): raises, whatever the keywords
JobDelete(kwargs) ==
    /\ jobInst # NoJob
    /\ njcalls < MaxJobCalls
    /\ njcalls' = njcalls + 1
    /\ jcall' = [op |-> "delete", kwargs |-> kwargs]
    /\ jres' = "RuntimeError"
    /\ jreqs' = <<>>
    /\ UNCHANGED <<jobState, rpc, rarg, rtimeout, rres, elapsed, jobInst>>
    /\ UNCHANGED <<codecVars, flowVars>>

ReloadNext ==
    \/ \E timeout \in CallerTimeouts \cup {NoTimeout} : Reload(timeout)
    \/ JobStart
    \/ \E state \in JobTerminal : JobEnd(state)
    \/ PollWait
    \/ PollTerminal
    \/ PollTimeout
    \/ JobGet
    \/ \E kwargs \in JobKwargs : JobUpdate(kwargs)
    \/ \E kwargs \in JobKwargs : JobDelete(kwargs)

(***************************************************************************)
(* Specifications                                                          *)
(***************************************************************************)
\* concurrent tasks working on the same user
Init == CodecIdle /\ FlowInit /\ ReloadIdle
Next == \E t \in Tasks : TaskNext(t)
Spec == Init /\ [][Next]_vars

\* one task, every call after the previous one has returned
NextSeq == TaskNext("t1")
SpecSeq == Init /\ [][NextSeq]_vars

\* the codec on every class and envelope
InitCodec == CodecInit /\ FlowIdle /\ ReloadIdle
SpecCodec == InitCodec /\ [][CodecNext]_vars

\* a configuration reload and the client's calls on the job
InitReload == CodecIdle /\ FlowIdle /\ ReloadInit
SpecReload == InitReload /\ [][ReloadNext]_vars

(***************************************************************************)
(* Properties                                                              *)
(***************************************************************************)
GroupList(bag) == IF "user_groups" \in DOMAIN bag THEN bag["user_groups"].data ELSE <<>>

\* task t has just completed add_to_group(g) right after a completed
\* add_to_group(g)
AddedTwice(t) ==
    /\ pc[t] = "done" /\ call[t].op = "add" /\ res[t] = "ok"
    /\ prev[t].op = "add" /\ prev[t].group_id = call[t].group_id /\ prev[t].res = "ok"

\* C1: after two successive add_to_group calls of one caller with the same
\* group id, the server's user_groups relationship holds exactly one linkage
\* for that group id.
C1_AddTwiceOneLinkage ==
    \A t \in Tasks :
        AddedTwice(t) =>
            /\ "user_groups" \in DOMAIN srv.relationships
            /\ CountOf(srv.relationships["user_groups"].data, call[t].group_id) = 1

\* the two calls were made on a user that was not in the group
C1_Witness ==
    \E t \in Tasks :
        /\ AddedTwice(t)
        /\ call[t].group_id \notin LinkIds(GroupList(initRel))
        /\ Len(writeLog) = 1

\* task t has completed remove_from_group(g) on a user that existed and was
\* not linked to g when the call started
RemovedAbsent(t) ==
    /\ pc[t] = "done" /\ call[t].op = "remove"
    /\ pre[t].srv.exists
    /\ call[t].group_id \notin LinkIds(GroupList(pre[t].srv.relationships))

\* C2: remove_from_group with a group id that is not among the user's
\* linkages raises nothing and leaves the server's relationships as they
\* were, with a user_groups entry and without one.
C2_RemoveAbsentNoOp ==
    \A t \in Tasks :
        RemovedAbsent(t) =>
            /\ res[t] = "ok"
            /\ srv.relationships = pre[t].srv.relationships

\* the entry was there with another group in it, and the update was sent
C2_Witness ==
    \E t \in Tasks :
        /\ RemovedAbsent(t)
        /\ GroupList(pre[t].srv.relationships) # <<>>
        /\ Len(reqs[t]) = 3

\* the relationships on the server when a task fetched, given the number of
\* membership writes applied by then
SnapshotAt(i) == IF i = 0 THEN initRel ELSE writeLog[i].sent

\* C3: the membership workflow is a read-modify-write without atomicity:
\* every write carries the list its task fetched, edited by that task alone,
\* and the server holds what the last writer sent, so a write made between a
\* task's fetch and its update is lost.
C3_LastWriterWins ==
    /\ srv.relationships = SnapshotAt(Len(writeLog))
    /\ \A k \in 1..Len(writeLog) :
          LET e == writeLog[k]
              before == GroupList(SnapshotAt(e.fetchIdx))
          IN /\ e.op \in {"add", "remove"}
             /\ e.fetchIdx < k
             /\ e.op = "add" =>
                   /\ e.group_id \notin LinkIds(before)
                   /\ e.sent = SetEntry(SnapshotAt(e.fetchIdx), "user_groups",
                                        Append(before, Linkage(e.group_id)))
             /\ e.op = "remove" =>
                   e.sent = SetEntry(SnapshotAt(e.fetchIdx), "user_groups",
                                     SelectLinks(before, LinkIds(before) \ {e.group_id}))

\* both tasks added a group and returned normally, and one group is missing
C3_Witness ==
    /\ \A t \in Tasks : pc[t] = "done" /\ call[t].op = "add" /\ res[t] = "ok"
                        /\ Len(reqs[t]) = 3
    /\ call["t1"].group_id # call["t2"].group_id
    /\ initRel = EmptyBag
    /\ Cardinality(LinkIds(GroupList(srv.relationships))) = 1

UpdateSent(ok) == Request("user", "update", ok)
GetSent(ok) == Request("user", "get", ok)

\* where a call of update on the caller's instance stands
C4_Order(t) ==
    /\ pc[t] = "write" => reqs[t] = <<>>
    /\ pc[t] = "refetch" => reqs[t] = <<UpdateSent(TRUE)>> /\ self[t] = pre[t].self
    /\ pc[t] = "done" =>
          \/ reqs[t] = <<UpdateSent(FALSE)>> /\ res[t] = "NotFoundError"
                /\ self[t] = pre[t].self
          \/ reqs[t] = <<UpdateSent(TRUE), GetSent(FALSE)>> /\ res[t] = "NotFoundError"
                /\ self[t] = pre[t].self
          \/ reqs[t] = <<UpdateSent(TRUE), GetSent(TRUE)>> /\ res[t] = "ok"
                /\ self[t].fields_set = pre[t].self.fields_set

\* the step that completes an update overlays the server's state of that
\* moment onto the caller's instance
C4_Overlay(t) ==
    (call[t].op = "update" /\ pc[t] = "refetch" /\ pc'[t] = "done" /\ res'[t] = "ok") =>
        /\ self'[t].relationships = srv.relationships
        /\ self'[t].values["username"] = StrOf(srv.attributes["username"])
        /\ self'[t].id = self[t].id
        /\ self'[t].type = self[t].type

\* C4: update sends the write first; only a successful write is followed by
\* the fetch by id, whose result is overlaid onto the caller's instance; a
\* failed write is followed by no fetch and leaves the instance as it was.
C4_WriteThenRefetch ==
    /\ [](\A t \in Tasks : call[t].op = "update" => C4_Order(t))
    /\ [][\A t \in Tasks : C4_Overlay(t)]_vars

\* an update whose write failed, on an instance the caller had changed
C4_Witness ==
    \E t \in Tasks :
        /\ call[t].op = "update" /\ pc[t] = "done"
        /\ reqs[t] = <<UpdateSent(FALSE)>>
        /\ call[t].set # Absent

\* the declared attribute fields of the class that the envelope carries with
\* a value other than null, less the fields declared with exclude
CarriedFields ==
    {k \in (Fields(kind) \cap AttrKeys) \ (BaseFields \cup FieldExclude(kind)) :
        env.data.attributes[k] \notin {Absent, Null}}

\* C5, as stated: decoding an envelope and encoding the instance unchanged
\* gives an empty attribute payload.
C5_RoundTripEmpty == cpc = "encoded" => DOMAIN payload = {}

\* C5, amended: decoding an envelope and encoding the instance unchanged
\* gives back every declared, non-excluded attribute field that the envelope
\* carries with a value other than null, with its validated value, and
\* nothing else; the payload is empty only when there is no such field.
C5_RoundTripCarried ==
    cpc = "encoded" =>
        /\ DOMAIN payload = CarriedFields
        /\ \A k \in DOMAIN payload : payload[k] = StrOf(env.data.attributes[k])

\* an envelope with a declared field, which is sent back, and an unknown
\* key, which is not
C5_Witness ==
    /\ cpc = "encoded"
    /\ DOMAIN payload # {}
    /\ env.data.attributes["unknown"] # Absent

C7_TypeIsCanonical ==
    /\ cpc \in {"decoded", "encoded"} => inst.type = TypeDefault(kind)
    /\ cpc = "encoded" => "type" \notin DOMAIN payload

\* C8: the lookup reads id and type from the top level of the envelope,
\* relationships from the top-level bag (empty when absent) and any other
\* key from the attributes (the default when missing); keys named id, type
\* or relationships inside the attributes never replace the top-level ones,
\* also in the decoded instance.
C8_LookupPrecedence ==
    /\ \A d \in {Missing, Null} :
          /\ Get(env, "id", d) = env.data.id
          /\ Get(env, "type", d) = env.data.type
          /\ Get(env, "relationships", d) =
                (IF env.data.has_relationships THEN env.data.relationships ELSE EmptyBag)
          /\ \A k \in AttrKeys \ BaseFields :
                Get(env, k, d) = (IF env.data.attributes[k] # Absent
                                  THEN env.data.attributes[k] ELSE d)
    /\ cpc = "decoded" =>
          /\ inst.id = UnionIntStr(env.data.id)
          /\ inst.type = env.data.type
          /\ inst.relationships =
                (IF env.data.has_relationships THEN env.data.relationships ELSE EmptyBag)

\* an envelope decoded with another id and another type in its attributes
C8_Witness ==
    /\ cpc = "decoded"
    /\ env.data.attributes["id"] = "s:a"
    /\ env.data.attributes["type"] = "s:a"

\* C9, as stated: reload takes the caller's timeout; against a job that stays
\* running the call fails with TimeoutError when that timeout has elapsed,
\* and it returns normally only with the job terminal.
C9_CallerTimeout ==
    /\ rres # "TypeError"
    /\ rres = "TimeoutError" => rarg # NoTimeout /\ elapsed = rarg
    /\ rres = "ok" => jobState \in JobTerminal

\* C9, amended: reload takes no timeout (a call that passes one is rejected
\* before any request) and always gives request_job 900 seconds; against a
\* job that stays created or running the call fails with TimeoutError when
\* 900 seconds have elapsed and not before, and it returns normally only
\* with the job terminal.
C9_FixedTimeout ==
    /\ rarg # NoTimeout => rpc = "done" /\ rres = "TypeError" /\ jobState = "none"
    /\ rpc = "polling" => rtimeout = 900 /\ elapsed <= 900 /\ rres = "none"
    /\ rres = "TimeoutError" => elapsed = 900 /\ jobState # "none"
    /\ rres = "ok" => jobState \in JobTerminal

\* the job never left running and the call timed out
C9_Witness == rres = "TimeoutError" /\ jobState = "running" /\ rarg = NoTimeout

\* C10: add_to_group and remove_from_group leave the caller's instance as it
\* was when the call started, at every step and whatever the outcome.
C10_SelfUntouched ==
    \A t \in Tasks :
        call[t].op \in {"add", "remove"} => self[t] = pre[t].self

\* the update was sent and the caller's instance is behind the server
C10_Witness ==
    \E t \in Tasks :
        /\ call[t].op = "add" /\ pc[t] = "done" /\ res[t] = "ok"
        /\ Len(reqs[t]) = 3
        /\ self[t].relationships # srv.relationships

====
